---- MODULE Spec2Model ----
(***************************************************************************)
(* Class assignment as a constraint problem (csp_problem.py).              *)
(* solve_class_assignment loads a table of students, checks the head       *)
(* count against the class sizes, builds a CP-SAT model over the boolean   *)
(* variables assign[s, c], asks the solver for a solution, reads the       *)
(* assignment back and re-checks the rules on it.                          *)
(*                                                                         *)
(* Column names: good = '좋은관계', bad = '나쁜관계', absent = '비등교',   *)
(* sport = '운동선호', club = '클럽', ly = '24년 학급'.                    *)
(* Class ids are 0-based as in the source; CLASS_SIZES[c + 1] is the size  *)
(* of class c.                                                             *)
(***************************************************************************)
EXTENDS Integers, Sequences, FiniteSets, TLC

VARIABLES pc, CLASS_SIZES, df, students, model, status, solution,
          assigned_class, report

vars == <<pc, CLASS_SIZES, df, students, model, status, solution,
          assigned_class, report>>

(***************************************************************************)
(* Bounds of the model.                                                    *)
(***************************************************************************)
MaxStudents == 3
NumClubs == 2
NumLastYear == 1
MaxScore == 2

(***************************************************************************)
(* Program constants.                                                      *)
(***************************************************************************)
LY_CAP == 1
W_SCORE == 1
W_LY == 100

(***************************************************************************)
(* Values of the input table.  NaN is a missing cell: NaNRef in the two    *)
(* numeric relation columns, NaNStr in the text columns.  A text cell may  *)
(* carry surrounding blanks (" yes").                                      *)
(***************************************************************************)
NaNRef == 0 - 1
NaNStr == "<NaN>"

\* str.strip() on the text cells the model draws (line 17)
Strip(x) ==
    CASE x = " yes" -> "yes"
      [] x = "no " -> "no"
      [] x = " boy" -> "boy"
      [] OTHER -> x

\* Series.fillna(v): a missing cell becomes v, any other cell is kept
FillNa(x, nan, v) == IF x = nan THEN v ELSE x

\* lines 14-26: strip the text columns, fill the missing cells
Normalize(r) ==
    [id     |-> r.id,
     score  |-> r.score,
     sex    |-> Strip(r.sex),
     Leadership |-> FillNa(Strip(r.Leadership), NaNStr, "no"),
     Piano  |-> FillNa(Strip(r.Piano), NaNStr, "no"),
     absent |-> FillNa(Strip(r.absent), NaNStr, "no"),
     sport  |-> FillNa(Strip(r.sport), NaNStr, "no"),
     club   |-> Strip(r.club),
     ly     |-> FillNa(Strip(r.ly), NaNStr, "unknown"),
     good   |-> FillNa(r.good, NaNRef, 0),
     bad    |-> FillNa(r.bad, NaNRef, 0)]

(***************************************************************************)
(* The registry (lines 28-37), as functions of the normalised records.     *)
(***************************************************************************)
student_ids(sts) == [i \in 1..Len(sts) |-> sts[i].id]

IdSet(sts) == {sts[i].id : i \in 1..Len(sts)}

\* {s['id']: s for s in students}: a later record replaces an earlier one
student_map(sts) ==
    [x \in IdSet(sts) |->
        sts[CHOOSE i \in 1..Len(sts) :
                /\ sts[i].id = x
                /\ \A j \in (i + 1)..Len(sts) : sts[j].id # x]]

NUM_STUDENTS(sts) == Len(sts)
NUM_CLASSES == Len(CLASS_SIZES)
CLASS_IDS == 0..(NUM_CLASSES - 1)

RECURSIVE SumSeq(_)
SumSeq(q) == IF q = <<>> THEN 0 ELSE q[1] + SumSeq(Tail(q))

\* the sum of the values of a function
RECURSIVE SumFn(_)
SumFn(f) ==
    IF DOMAIN f = {} THEN 0
    ELSE LET x == CHOOSE y \in DOMAIN f : TRUE
         IN  f[x] + SumFn([y \in DOMAIN f \ {x} |-> f[y]])

Max2(a, b) == IF a >= b THEN a ELSE b

FloorDiv(a, b) == a \div b
CeilDiv(a, b) == (a + b - 1) \div b


(***************************************************************************)
(* The constraint model (lines 42-152).  A boolean variable assign[s, c]   *)
(* is the pair <<s, c>>.  A sum of variables is the sequence of its terms, *)
(* so that a student id listed twice counts twice.                         *)
(*   exactly_one : sets of variables of which exactly one is true          *)
(*   linear      : lo <= sum(terms) <= hi                                  *)
(*   bool_or     : <<a, b>> for AddBoolOr([a.Not(), b.Not()])              *)
(*   implication : <<a, b>> for AddImplication(a, b)                       *)
(*   over        : the integer variables ly_over_g_c in 0..ub, each with   *)
(*                 over >= sum(terms) - LY_CAP                             *)
(*   class_scores: per class, the terms <<variable, score>> of its sum     *)
(*   objective   : the coefficients of (max_score_var - min_score_var) and *)
(*                 of sum(ly_penalties) in the minimised expression        *)
(***************************************************************************)
EmptyModel ==
    [vars |-> {}, exactly_one |-> {}, linear |-> {}, bool_or |-> {},
     implication |-> {}, over |-> {}, class_scores |-> <<>>,
     objective |-> [range_coef |-> 0, ly_coef |-> 0]]

\* sum(assign[s, c_id] for s in ids)
Terms(ids, c_id) == [i \in 1..Len(ids) |-> <<ids[i], c_id>>]

Linear(terms, lo, hi) == [terms |-> terms, lo |-> lo, hi |-> hi]

\* lines 46-49
AssignVars(sts) == IdSet(sts) \X CLASS_IDS

\* lines 54-55 left out
ExactlyOneForgotten(sts) == {}

\* lines 54-55
ExactlyOneConstraints(sts) ==
    {{<<s_id, c>> : c \in CLASS_IDS} : s_id \in IdSet(sts)}

\* lines 58-59
CapacityConstraints(sts) ==
    {Linear(Terms(student_ids(sts), c_id), CLASS_SIZES[c_id + 1], CLASS_SIZES[c_id + 1]) :
        c_id \in CLASS_IDS}

\* lines 62-67 with the clause added for the first class alone
NegativeFirstClassOnly(sts) ==
    {<<<<s1_id, 0>>, <<student_map(sts)[s1_id].bad, 0>>>> :
        s1_id \in {x \in IdSet(sts) : student_map(sts)[x].bad \in IdSet(sts)}}

\* lines 62-67
NegativeConstraints(sts) ==
    {<<<<s1_id, c_id>>, <<student_map(sts)[s1_id].bad, c_id>>>> :
        s1_id \in {x \in IdSet(sts) : student_map(sts)[x].bad \in IdSet(sts)},
        c_id \in CLASS_IDS}

\* lines 70-76 with the implication added for the first class alone
CoPlacementFirstClassOnly(sts) ==
    {<<<<s_id, 0>>, <<student_map(sts)[s_id].good, 0>>>> :
        s_id \in {x \in IdSet(sts) :
                    /\ student_map(sts)[x].absent = "yes"
                    /\ student_map(sts)[x].good \in IdSet(sts)}}

\* lines 70-76
CoPlacementConstraints(sts) ==
    {<<<<s_id, c_id>>, <<student_map(sts)[s_id].good, c_id>>>> :
        s_id \in {x \in IdSet(sts) :
                    /\ student_map(sts)[x].absent = "yes"
                    /\ student_map(sts)[x].good \in IdSet(sts)},
        c_id \in CLASS_IDS}

\* lines 78-86 with the test for 'yes' turned round
distribute_evenly_others(sts, attribute_name) ==
    LET HasIt(s_id) == student_map(sts)[s_id][attribute_name] # "yes"
        students_with_attribute == SelectSeq(student_ids(sts), HasIt)
        total_count == Len(students_with_attribute)
    IN  {Linear(Terms(students_with_attribute, c_id),
                FloorDiv(total_count, NUM_CLASSES), CeilDiv(total_count, NUM_CLASSES)) :
            c_id \in CLASS_IDS}

\* lines 78-86
distribute_evenly(sts, attribute_name) ==
    LET HasIt(s_id) == student_map(sts)[s_id][attribute_name] = "yes"
        students_with_attribute == SelectSeq(student_ids(sts), HasIt)
        total_count == Len(students_with_attribute)
        min_per_class == FloorDiv(total_count, NUM_CLASSES)
        max_per_class == CeilDiv(total_count, NUM_CLASSES)
    IN  {Linear(Terms(students_with_attribute, c_id), min_per_class, max_per_class) :
            c_id \in CLASS_IDS}

\* line 91
leadership_students(sts) ==
    LET IsLeader(s_id) == student_map(sts)[s_id].Leadership = "yes"
    IN  SelectSeq(student_ids(sts), IsLeader)

\* lines 92-93: sum >= 1 (the sum never exceeds its number of terms)
LeadershipConstraints(sts) ==
    {Linear(Terms(leadership_students(sts), c_id), 1, Len(leadership_students(sts)) + 1) :
        c_id \in CLASS_IDS}

\* lines 96-100 (and 249-253): prior-year label -> ids of the records carrying it
LyLabels(sts) ==
    {sts[i].ly : i \in {j \in 1..Len(sts) : sts[j].ly # "" /\ sts[j].ly # "unknown"}}

last_year_classes(sts) ==
    [l \in LyLabels(sts) |->
        LET Carries(r) == r.ly = l
        IN  student_ids(SelectSeq(sts, Carries))]

\* lines 108-115: the variables ly_over_g_c, named here by <<label, class>>
ly_penalties(sts) ==
    {[name  |-> <<l, c_id>>,
      terms |-> Terms(last_year_classes(sts)[l], c_id),
      cap   |-> LY_CAP,
      ub    |-> Len(last_year_classes(sts)[l])] :
        l \in LyLabels(sts), c_id \in CLASS_IDS}

\* line 123 with 'girl' for 'boy'
female_students(sts) ==
    LET IsGirl(s_id) == student_map(sts)[s_id].sex = "girl"
    IN  SelectSeq(student_ids(sts), IsGirl)

\* line 123
male_students(sts) ==
    LET IsBoy(s_id) == student_map(sts)[s_id].sex = "boy"
    IN  SelectSeq(student_ids(sts), IsBoy)

\* lines 124-128
SexConstraints(sts) ==
    LET total_males == Len(male_students(sts))
        min_males == FloorDiv(total_males, NUM_CLASSES)
        max_males == CeilDiv(total_males, NUM_CLASSES)
    IN  {Linear(Terms(male_students(sts), c_id), min_males, max_males) :
            c_id \in CLASS_IDS}

\* line 131: df['클럽'].unique(), NaN included
all_clubs(sts) == {sts[i].club : i \in 1..Len(sts)}

\* line 133: a == b on club cells; NaN equals nothing, itself included
ClubEq(a, b) == a # NaNStr /\ b # NaNStr /\ a = b

students_in_club(sts, club) ==
    LET InClub(s_id) == ClubEq(student_map(sts)[s_id].club, club)
    IN  SelectSeq(student_ids(sts), InClub)

\* lines 132-139
ClubConstraints(sts) ==
    {Linear(Terms(students_in_club(sts, club), c_id),
            FloorDiv(Len(students_in_club(sts, club)), NUM_CLASSES),
            CeilDiv(Len(students_in_club(sts, club)), NUM_CLASSES)) :
        club \in {k \in all_clubs(sts) : students_in_club(sts, k) # <<>>},
        c_id \in CLASS_IDS}

\* line 142
class_scores(sts) ==
    [c \in CLASS_IDS |->
        [i \in 1..Len(sts) |->
            <<<<student_ids(sts)[i], c>>, student_map(sts)[student_ids(sts)[i]].score>>]]

\* line 152 left out: nothing is minimised
ObjectiveForgotten == [range_coef |-> 0, ly_coef |-> 0]

\* line 152: model.Minimize(max_score_var - min_score_var)
Objective == [range_coef |-> 1, ly_coef |-> 0]

\* lines 42-152
BuildModel(sts) ==
    [vars |-> AssignVars(sts),
     exactly_one |-> ExactlyOneConstraints(sts),
     linear |-> CapacityConstraints(sts)
                  \cup LeadershipConstraints(sts)
                  \cup distribute_evenly(sts, "Piano")
                  \cup distribute_evenly(sts, "absent")
                  \cup distribute_evenly(sts, "sport")
                  \cup SexConstraints(sts)
                  \cup ClubConstraints(sts),
     bool_or |-> NegativeConstraints(sts),
     implication |-> CoPlacementConstraints(sts),
     over |-> ly_penalties(sts),
     class_scores |-> class_scores(sts),
     objective |-> Objective]

(***************************************************************************)
(* The solver (line 157), as its contract: a solution gives every boolean  *)
(* variable and every integer variable a value that satisfies every        *)
(* constraint of the model; OPTIMAL is reported only for a solution of     *)
(* least objective value, FEASIBLE for a solution found when the time      *)
(* limit ends the search, INFEASIBLE when the model has no solution and    *)
(* UNKNOWN when the time limit ends the search with nothing found.         *)
(***************************************************************************)
NoSolution == [assign |-> <<>>, over |-> <<>>]

\* the value of a sum of boolean variables
Count(terms, v) == Cardinality({i \in 1..Len(terms) : v[terms[i]]})

SatBool(m, v) ==
    /\ \A e \in m.exactly_one : Cardinality({k \in e : v[k]}) = 1
    /\ \A l \in m.linear : l.lo <= Count(l.terms, v) /\ Count(l.terms, v) <= l.hi
    /\ \A p \in m.bool_or : ~v[p[1]] \/ ~v[p[2]]
    /\ \A p \in m.implication : v[p[1]] => v[p[2]]

OverNames(m) == {o.name : o \in m.over}

MaxUb(m) == IF m.over = {} THEN 0
            ELSE CHOOSE u \in {o.ub : o \in m.over} : \A o \in m.over : o.ub <= u

\* NewIntVar(0, ub) with over >= cnt_expr - LY_CAP (lines 111-113)
SatOver(m, v, ov) ==
    \A o \in m.over :
        /\ ov[o.name] >= 0
        /\ ov[o.name] <= o.ub
        /\ ov[o.name] >= Count(o.terms, v) - o.cap

\* the ways of choosing one variable in each of the sets `groups`
RECURSIVE Choices(_)
Choices(groups) ==
    IF groups = {} THEN {{}}
    ELSE LET g == CHOOSE x \in groups : TRUE
         IN  {chosen \cup {k} : chosen \in Choices(groups \ {g}), k \in g}

\* The valuations worth trying: one true variable chosen in every exactly-one
\* set, and any value for the variables in no such set.  Every valuation that
\* satisfies the exactly-one constraints is of this form.
Candidates(m) ==
    LET free == m.vars \ UNION m.exactly_one
    IN  {[k \in m.vars |-> IF k \in free THEN f[k] ELSE k \in chosen] :
            chosen \in Choices(m.exactly_one), f \in [free -> BOOLEAN]}

Solutions(m) ==
    UNION {{[assign |-> v, over |-> ov] :
                ov \in {w \in [OverNames(m) -> 0..MaxUb(m)] : SatOver(m, v, w)}} :
            v \in {w \in Candidates(m) : SatBool(m, w)}}

\* the value of class_scores[c] (line 142) in a solution
ClassScore(m, v, c) ==
    SumSeq([i \in 1..Len(m.class_scores[c]) |->
                IF v[m.class_scores[c][i][1]] THEN m.class_scores[c][i][2] ELSE 0])

\* AddMaxEquality / AddMinEquality (lines 145-146)
MaxScoreVar(m, v) ==
    CHOOSE x \in {ClassScore(m, v, c) : c \in DOMAIN m.class_scores} :
        \A c \in DOMAIN m.class_scores : ClassScore(m, v, c) <= x

MinScoreVar(m, v) ==
    CHOOSE x \in {ClassScore(m, v, c) : c \in DOMAIN m.class_scores} :
        \A c \in DOMAIN m.class_scores : ClassScore(m, v, c) >= x

\* the sum of the solved values of the variables ly_over_g_c
SumOver(sol) == SumFn(sol.over)

ObjectiveValue(m, sol) ==
    m.objective.range_coef * (MaxScoreVar(m, sol.assign) - MinScoreVar(m, sol.assign))
      + m.objective.ly_coef * SumOver(sol)

\* the least objective value among the solutions `all`
BestValue(m, all) ==
    LET values == {ObjectiveValue(m, sol) : sol \in all}
    IN  CHOOSE x \in values : \A y \in values : x <= y

(***************************************************************************)
(* Reading the assignment back (lines 191-199) and the verification pass   *)
(* (lines 201-295).                                                        *)
(***************************************************************************)
NoClass == 0 - 1

\* lines 191-196: the first class whose variable is true
ReadAssignment(sts, v) ==
    [s_id \in {x \in IdSet(sts) : \E c \in CLASS_IDS : v[<<x, c>>]} |->
        CHOOSE c \in CLASS_IDS :
            /\ v[<<s_id, c>>]
            /\ \A d \in CLASS_IDS : v[<<s_id, d>>] => c <= d]

\* lines 198-199, over an assignment ac
get_assigned_class(ac, sid) ==
    IF sid \in DOMAIN ac THEN ac[sid] ELSE NoClass

\* str(x).lower() and str(x) on the text cells the model draws
Lower(x) == IF x = "Yes" THEN "yes" ELSE x
StrOf(x) == IF x = NaNStr THEN "nan" ELSE x

\* the number of members of ids that ac places in class c_id
CountIn(ac, ids, c_id) ==
    Cardinality({i \in 1..Len(ids) : get_assigned_class(ac, ids[i]) = c_id})

\* lines 202-209
bad_violations(sts, ac) ==
    {<<s1_id, student_map(sts)[s1_id].bad, get_assigned_class(ac, s1_id)>> :
        s1_id \in {x \in IdSet(sts) :
            LET s2_id == student_map(sts)[x].bad
            IN  /\ s2_id \in IdSet(sts)
                /\ s2_id # x
                /\ get_assigned_class(ac, x) # NoClass
                /\ get_assigned_class(ac, x) = get_assigned_class(ac, s2_id)}}

\* lines 203-205: the (student, referenced student) pairs the pass looks at
bad_pairs_checked(sts) ==
    {<<s1_id, student_map(sts)[s1_id].bad>> :
        s1_id \in {x \in IdSet(sts) :
            /\ student_map(sts)[x].bad \in IdSet(sts)
            /\ student_map(sts)[x].bad # x}}

\* lines 216-225
absc_violations(sts, ac) ==
    {<<s_id, student_map(sts)[s_id].good>> :
        s_id \in {x \in IdSet(sts) :
            LET friend_id == student_map(sts)[x].good
            IN  /\ Lower(student_map(sts)[x].absent) = "yes"
                /\ friend_id \in IdSet(sts)
                /\ friend_id # x
                /\ get_assigned_class(ac, x) # NoClass
                /\ get_assigned_class(ac, friend_id) # NoClass
                /\ get_assigned_class(ac, x) # get_assigned_class(ac, friend_id)}}

\* lines 232-242
sport_viol(sts, ac) ==
    LET IsSport(s) == Lower(student_map(sts)[s].sport) = "yes"
        sport_ids == SelectSeq(student_ids(sts), IsSport)
        total_sport == Len(sport_ids)
        min_sport == FloorDiv(total_sport, NUM_CLASSES)
        max_sport == CeilDiv(total_sport, NUM_CLASSES)
    IN  {<<c_id, CountIn(ac, sport_ids, c_id)>> :
            c_id \in {c \in CLASS_IDS :
                ~(min_sport <= CountIn(ac, sport_ids, c)
                    /\ CountIn(ac, sport_ids, c) <= max_sport)}}

\* lines 249-265
total_ly_penalty(sts, ac) ==
    LET groups == last_year_classes(sts)
    IN  SumFn([cell \in LyLabels(sts) \X CLASS_IDS |->
                Max2(CountIn(ac, groups[cell[1]], cell[2]) - LY_CAP, 0)])

\* lines 277-291
club_viol(sts, ac) ==
    LET clubs == {Strip(StrOf(FillNa(sts[i].club, NaNStr, "none"))) : i \in 1..Len(sts)}
        Members(club) ==
            LET InClub(s) == Strip(StrOf(student_map(sts)[s].club)) = club
            IN  SelectSeq(student_ids(sts), InClub)
        OutOfRange(club, c_id) ==
            LET total == Len(Members(club))
                cnt == CountIn(ac, Members(club), c_id)
            IN  /\ Members(club) # <<>>
                /\ ~(FloorDiv(total, NUM_CLASSES) <= cnt /\ cnt <= CeilDiv(total, NUM_CLASSES))
    IN  {<<p[1], p[2], CountIn(ac, Members(p[1]), p[2])>> :
            p \in {q \in clubs \X CLASS_IDS : OutOfRange(q[1], q[2])}}

NoReport ==
    [bad_violations |-> {}, absc_violations |-> {}, sport_viol |-> {},
     total_ly_penalty |-> 0, club_viol |-> {}]

\* lines 201-295
Verification(sts, ac) ==
    [bad_violations |-> bad_violations(sts, ac),
     absc_violations |-> absc_violations(sts, ac),
     sport_viol |-> sport_viol(sts, ac),
     total_ly_penalty |-> total_ly_penalty(sts, ac),
     club_viol |-> club_viol(sts, ac)]

(***************************************************************************)
(* Input tables.  A table is a sequence of rows.  A family of tables       *)
(* fixes, per column, the cells a row may hold (its kinds of rows), and    *)
(* the ids: row i carries the id i + off, or, in a family of any ids, any  *)
(* id from 1 to MaxStudents.                                               *)
(***************************************************************************)
RowsOf(D) ==
    [id : {0}, score : D.score, sex : D.sex, Leadership : D.Leadership,
     Piano : D.Piano, absent : D.absent, sport : D.sport, club : D.club,
     ly : D.ly, good : D.good, bad : D.bad]

\* the rows of any of the kinds Ds, their id still to be set
Rows(Ds) == UNION {RowsOf(D) : D \in Ds}

Family(off, Ds) == [any |-> FALSE, off |-> off, kinds |-> Ds]
AnyIdFamily(Ds) == [any |-> TRUE, off |-> 0, kinds |-> Ds]

\* the id columns of the tables of n rows of a family
IdColumns(fam, n) ==
    IF fam.any THEN [1..n -> 1..MaxStudents]
    ELSE {[i \in 1..n |-> i + fam.off]}

\* df is a table of one of the families
TableOf(fams) ==
    \E fam \in fams, n \in 1..MaxStudents :
        \E cells \in [1..n -> Rows(fam.kinds)], ids \in IdColumns(fam, n) :
            df = [i \in 1..n |-> [cells[i] EXCEPT !.id = ids[i]]]

\* line 36 at the model's scale: two or three classes of at least one seat each,
\* listed by size, of sizes that differ by at most one (as 33 and 34 do), with
\* at most MaxStudents seats in all
ClassSizeChoices ==
    {q \in UNION {[1..k -> 1..MaxStudents] : k \in {2, 3}} :
        /\ SumSeq(q) <= MaxStudents
        /\ \A i \in 1..(Len(q) - 1) : q[i] <= q[i + 1]
        /\ q[Len(q)] - q[1] <= 1}

\* a row with no flag but leadership, no club, no relation, no prior-year class
Plain ==
    [score |-> {0}, sex |-> {"girl"}, Leadership |-> {"yes"}, Piano |-> {NaNStr},
     absent |-> {NaNStr}, sport |-> {NaNStr}, club |-> {NaNStr}, ly |-> {NaNStr},
     good |-> {NaNRef}, bad |-> {NaNRef}]

\* a reference cell: missing, or any number from 0 to MaxStudents
RefCells == {NaNRef} \cup 0..MaxStudents

\* negative relations, ids from 1 and ids from 0
NegativeTables ==
    {Family(0, {[Plain EXCEPT !.bad = RefCells]}),
     Family(0 - 1, {[Plain EXCEPT !.bad = RefCells]})}

\* non-attendance students with a positive relation, ids from 1 and ids from 0
PositiveTables ==
    LET kinds == {Plain, [Plain EXCEPT !.absent = {"yes"}, !.good = RefCells]}
    IN  {Family(0, kinds), Family(0 - 1, kinds)}

\* the flags spread by distribute_evenly, some cells padded with blanks
FlagTables ==
    {Family(0, {[Plain EXCEPT !.Piano = {NaNStr, " yes"}, !.sport = {"no ", "yes"}],
                [Plain EXCEPT !.absent = {"yes"}]})}

ClubNames == <<"art", "band", "chess", "dance">>
Clubs == {ClubNames[i] : i \in 1..NumClubs}

\* club members and students of no club
ClubTables ==
    {Family(0, {[Plain EXCEPT !.club = {NaNStr} \cup Clubs]})}

\* boys, girls and a third value, all leaders, and girls who are not
SexTables ==
    {Family(0, {[Plain EXCEPT !.sex = {" boy", "girl", "other"}],
                [Plain EXCEPT !.Leadership = {NaNStr}]})}

LyNames == <<"1-1", "1-2", "1-3">>
LyLabelCells == {LyNames[i] : i \in 1..NumLastYear}

\* scores and prior-year classes
ObjectiveTables ==
    {Family(0, {[Plain EXCEPT !.score = 0..MaxScore, !.ly = {NaNStr} \cup LyLabelCells],
                [Plain EXCEPT !.Leadership = {NaNStr}]})}

\* tables whose rows carry any ids from 1 to MaxStudents, repeated or not
AnyIdTables ==
    {AnyIdFamily({[Plain EXCEPT !.score = {0, MaxScore}]})}

\* the six students of scores 10, 20, ..., 60, any of them leaders, and the
\* same table cut after its fifth row
ScenarioScores == <<10, 20, 30, 40, 50, 60>>
ScenarioSizes == <<3, 3>>
ScenarioTables ==
    {[i \in 1..n |-> [id |-> i, score |-> ScenarioScores[i], sex |-> "girl",
                      Leadership |-> lead[i], Piano |-> NaNStr, absent |-> NaNStr,
                      sport |-> NaNStr, club |-> NaNStr, ly |-> NaNStr,
                      good |-> NaNRef, bad |-> NaNRef]] :
        n \in {Len(ScenarioScores) - 1, Len(ScenarioScores)},
        lead \in [1..Len(ScenarioScores) -> {"yes", NaNStr}]}

(***************************************************************************)
(* The run of solve_class_assignment.                                      *)
(***************************************************************************)
InitOf(sizes, InputTable) ==
    /\ pc = "start"
    /\ InputTable
    /\ CLASS_SIZES \in sizes
    /\ students = <<>>
    /\ model = EmptyModel
    /\ status = "NONE"
    /\ solution = NoSolution
    /\ assigned_class = <<>>
    /\ report = NoReport

\* lines 14-31
Load ==
    /\ pc = "start"
    /\ students' = [i \in 1..Len(df) |-> Normalize(df[i])]
    /\ pc' = "loaded"
    /\ UNCHANGED <<CLASS_SIZES, df, model, status, solution, assigned_class, report>>

\* line 40: assert NUM_STUDENTS == sum(CLASS_SIZES)
CheckSizes ==
    /\ pc = "loaded"
    /\ pc' = IF NUM_STUDENTS(students) = SumSeq(CLASS_SIZES)
             THEN "checked" ELSE "AssertionError"
    /\ UNCHANGED <<CLASS_SIZES, df, students, model, status, solution,
                   assigned_class, report>>

\* lines 42-152
Build ==
    /\ pc = "checked"
    /\ model' = BuildModel(students)
    /\ pc' = "built"
    /\ UNCHANGED <<CLASS_SIZES, df, students, status, solution, assigned_class, report>>

\* line 157
Solve ==
    /\ pc = "built"
    /\ LET all == Solutions(model)
           best == BestValue(model, all)
       IN  \/ /\ all = {}
              /\ status' = "INFEASIBLE"
              /\ solution' = NoSolution
           \/ \E sol \in all :
                /\ solution' = sol
                /\ \/ ObjectiveValue(model, sol) = best /\ status' = "OPTIMAL"
                   \/ status' = "FEASIBLE"
           \/ /\ status' = "UNKNOWN"
              /\ solution' = NoSolution
    /\ pc' = "solved"
    /\ UNCHANGED <<CLASS_SIZES, df, students, model, assigned_class, report>>

\* lines 159, 191-196
ReadBack ==
    /\ pc = "solved"
    /\ status \in {"OPTIMAL", "FEASIBLE"}
    /\ assigned_class' = ReadAssignment(students, solution.assign)
    /\ pc' = "assigned"
    /\ UNCHANGED <<CLASS_SIZES, df, students, model, status, solution, report>>

\* lines 201-296
Verify ==
    /\ pc = "assigned"
    /\ report' = Verification(students, assigned_class)
    /\ pc' = "done"
    /\ UNCHANGED <<CLASS_SIZES, df, students, model, status, solution, assigned_class>>

\* lines 298-306
ReportNoSolution ==
    /\ pc = "solved"
    /\ status \notin {"OPTIMAL", "FEASIBLE"}
    /\ pc' = "done"
    /\ UNCHANGED <<CLASS_SIZES, df, students, model, status, solution,
                   assigned_class, report>>

Next ==
    \/ Load
    \/ CheckSizes
    \/ Build
    \/ Solve
    \/ ReadBack
    \/ Verify
    \/ ReportNoSolution

InitFlags == InitOf(ClassSizeChoices, TableOf(FlagTables \cup ClubTables \cup SexTables))
SpecFlags == InitFlags /\ [][Next]_vars

\* two classes, for the number of overage variables
TwoClassSizes == {q \in ClassSizeChoices : Len(q) = Len(<<1, 1>>)}

InitObjective == InitOf(TwoClassSizes, TableOf(ObjectiveTables))
SpecObjective == InitObjective /\ [][Next]_vars

InitIntegrity == InitOf(ClassSizeChoices, TableOf(AnyIdTables))
SpecIntegrity == InitIntegrity /\ [][Next]_vars

InitScenario == InitOf({ScenarioSizes}, df \in ScenarioTables)
SpecScenario == InitScenario /\ [][Next]_vars

InitRelations == InitOf(ClassSizeChoices, TableOf(NegativeTables \cup PositiveTables))
SpecRelations == InitRelations /\ [][Next]_vars

\* the flags the verification pass reads, a sport cell also in capitals
VerificationTables ==
    NegativeTables \cup PositiveTables \cup ClubTables
        \cup {Family(0, {[Plain EXCEPT !.Piano = {NaNStr, "yes"},
                                       !.sport = {NaNStr, "yes", "Yes"},
                                       !.absent = {NaNStr, "yes"}]})}

\* the verification pass (lines 201-295) as a function of the loaded registry
\* and of assigned_class: the registry is loaded and has passed line 40, and
\* assigned_class is any total assignment of its students to the classes
InitVerification ==
    /\ TableOf(VerificationTables)
    /\ CLASS_SIZES \in ClassSizeChoices
    /\ students = [i \in 1..Len(df) |-> Normalize(df[i])]
    /\ NUM_STUDENTS(students) = SumSeq(CLASS_SIZES)
    /\ assigned_class \in [IdSet(students) -> CLASS_IDS]
    /\ pc = "assigned"
    /\ model = EmptyModel
    /\ status = "NONE"
    /\ solution = NoSolution
    /\ report = NoReport

NextVerification == Verify

SpecVerification == InitVerification /\ [][NextVerification]_vars

(***************************************************************************)
(* Properties.                                                             *)
(***************************************************************************)
\* an assignment has been read back from an OPTIMAL or FEASIBLE result
Produced == pc \in {"assigned", "done"} /\ status \in {"OPTIMAL", "FEASIBLE"}

\* C1: in every assignment read back from an OPTIMAL or FEASIBLE result, every
\* student id has exactly one true variable assign[s, c], and is mapped to that
\* one class, which is one of 0..NUM_CLASSES-1.
C1_TotalExclusive ==
    (pc \in {"solved", "assigned", "done"} /\ status \in {"OPTIMAL", "FEASIBLE"}) =>
        \A s_id \in IdSet(students) :
            /\ Cardinality({c \in CLASS_IDS : solution.assign[<<s_id, c>>]}) = 1
            /\ Produced =>
                /\ s_id \in DOMAIN assigned_class
                /\ assigned_class[s_id] \in CLASS_IDS
                /\ solution.assign[<<s_id, assigned_class[s_id]>>]

C1_Witness ==
    /\ Produced
    /\ Len(students) >= 3
    /\ \E s \in DOMAIN assigned_class, t \in DOMAIN assigned_class :
            assigned_class[s] = 0 /\ assigned_class[t] = 1

\* C2: in every produced assignment, a student whose negative-relation reference
\* is the id of another student of the registry is in a different class from
\* that student.
C2_NegativeSeparated ==
    Produced =>
        \A s_id \in IdSet(students) :
            LET t_id == student_map(students)[s_id].bad
            IN  (t_id \in IdSet(students) /\ t_id # s_id)
                    => assigned_class[s_id] # assigned_class[t_id]

C2_Witness ==
    /\ Produced
    /\ Len(students) >= 3
    /\ \E i \in 1..Len(df) :
            /\ df[i].bad \in IdSet(students)
            /\ df[i].bad # df[i].id
            /\ assigned_class[df[i].id] # assigned_class[df[i].bad]

\* C3: in every produced assignment, a student flagged non-attendance whose
\* positive-relation reference is the id of a student of the registry is in the
\* same class as that student.
C3_CoPlaced ==
    Produced =>
        \A s_id \in IdSet(students) :
            LET f_id == student_map(students)[s_id].good
            IN  (student_map(students)[s_id].absent = "yes" /\ f_id \in IdSet(students))
                    => assigned_class[s_id] = assigned_class[f_id]

C3_Witness ==
    /\ Produced
    /\ Len(students) >= 3
    /\ \E i \in 1..Len(df) :
            /\ df[i].absent = "yes"
            /\ df[i].good \in IdSet(students)
            /\ df[i].good # df[i].id
            /\ assigned_class[df[i].id] = assigned_class[df[i].good]
            /\ \E t \in IdSet(students) : assigned_class[t] # assigned_class[df[i].id]

\* the number of the students `members` that the assignment places in class c
Placed(members, c) == Cardinality({s \in members : assigned_class[s] = c})

\* every class holds between floor(T / NUM_CLASSES) and ceil(T / NUM_CLASSES) of
\* the T students `members`
EvenlySpread(members) ==
    \A c \in CLASS_IDS :
        /\ FloorDiv(Cardinality(members), NUM_CLASSES) <= Placed(members, c)
        /\ Placed(members, c) <= CeilDiv(Cardinality(members), NUM_CLASSES)

Flagged(attribute_name) ==
    {s \in IdSet(students) : student_map(students)[s][attribute_name] = "yes"}

ClubValues == {student_map(students)[s].club : s \in IdSet(students)} \ {NaNStr}

ClubMembers(club) == {s \in IdSet(students) : student_map(students)[s].club = club}

\* C4: in every produced assignment the students flagged Piano, those flagged
\* non-attendance, those flagged sport-preference and the members of each club
\* are spread so that every class holds between floor(T / NUM_CLASSES) and
\* ceil(T / NUM_CLASSES) of them, T being their number.
C4_FlagsEvenlySpread ==
    Produced =>
        /\ \A attribute_name \in {"Piano", "absent", "sport"} :
                EvenlySpread(Flagged(attribute_name))
        /\ \A club \in ClubValues : EvenlySpread(ClubMembers(club))

C4_Witness ==
    /\ Produced
    /\ Len(students) >= 3
    /\ \/ \E attribute_name \in {"Piano", "absent", "sport"} :
            /\ Cardinality(Flagged(attribute_name)) >= 2
            /\ \A c \in CLASS_IDS : Placed(Flagged(attribute_name), c) >= 1
       \/ \E club \in ClubValues :
            /\ Cardinality(ClubMembers(club)) >= 2
            /\ \A c \in CLASS_IDS : Placed(ClubMembers(club), c) >= 1

OfSex(sex) == {s \in IdSet(students) : student_map(students)[s].sex = sex}

OverlapPenalty(v) == total_ly_penalty(students, ReadAssignment(students, v))

\* W_SCORE * (max - min) + W_LY * (overlap penalty) of a solution of the model
WeightedObjective(sol) ==
    W_SCORE * (MaxScoreVar(model, sol.assign) - MinScoreVar(model, sol.assign))
      + W_LY * OverlapPenalty(sol.assign)

\* C6: the minimised objective is W_SCORE * (max - min) + W_LY * (sum of the
\* overage variables): a result reported OPTIMAL has the least weighted value
\* among the solutions of the model, each taken with its least overage.
C6_OptimalWeighsOverlap ==
    (pc = "solved" /\ status = "OPTIMAL") =>
        \A other \in Solutions(model) :
            WeightedObjective(solution) <= WeightedObjective(other)

\* C7: for a produced assignment the sum of the solved overage variables equals
\* the penalty the verification pass recomputes, and every overage variable
\* equals max(count - LY_CAP, 0).
C7_OverageMatchesRecount ==
    (pc = "done" /\ status \in {"OPTIMAL", "FEASIBLE"}) =>
        /\ SumOver(solution) = report.total_ly_penalty
        /\ \A o \in model.over :
                solution.over[o.name] = Max2(Count(o.terms, solution.assign) - LY_CAP, 0)

\* an id occurs in two rows of the input
DuplicateId == \E i \in 1..Len(df), j \in 1..Len(df) : i # j /\ df[i].id = df[j].id

\* C8: when the number of students differs from the sum of the class sizes, or
\* an id occurs twice, the run fails before any model variable is created and
\* before the solver is called, and no assignment is produced.
C8_BadInputFailsEarly ==
    (Len(df) # SumSeq(CLASS_SIZES) \/ DuplicateId) =>
        /\ pc \in {"start", "loaded", "AssertionError"}
        /\ model = EmptyModel
        /\ status = "NONE"
        /\ assigned_class = <<>>

\* the scenario's table in full
SixStudents == Len(df) = Len(ScenarioScores)
ScenarioLeaders == {i \in 1..Len(df) : df[i].Leadership = "yes"}
ScoreSum(c) == ClassScore(model, solution.assign, c)

\* C9 as stated: the six students with no flag set, none a leader, in two
\* classes of three: the model is feasible, and the optimum has both score sums 90.
C9_NoLeaderFeasible ==
    (SixStudents /\ ScenarioLeaders = {}) =>
        /\ pc = "solved" => status # "INFEASIBLE"
        /\ (pc = "solved" /\ status = "OPTIMAL") => \A c \in CLASS_IDS : ScoreSum(c) = 90

\* C9 amended: the six students with no flag set but leadership, in two classes
\* of three: with fewer than two leaders the model is infeasible; with at least
\* two it is feasible and the optimum has the score sums 100 and 110, objective
\* (max - min) = 10.
C9_LeadersFeasible ==
    (SixStudents /\ pc = "solved") =>
        /\ Cardinality(ScenarioLeaders) >= 2 =>
                /\ status # "INFEASIBLE"
                /\ status = "OPTIMAL" =>
                        /\ {ScoreSum(c) : c \in CLASS_IDS} = {100, 110}
                        /\ ObjectiveValue(model, solution) = 10
        /\ Cardinality(ScenarioLeaders) < 2 => status \notin {"OPTIMAL", "FEASIBLE"}

C9_Witness ==
    /\ SixStudents
    /\ pc = "solved"
    /\ status = "OPTIMAL"
    /\ Cardinality(ScenarioLeaders) = 2
    /\ {ScoreSum(c) : c \in CLASS_IDS} = {100, 110}

\* the normalised records with the relation cell `column` of row i holding no id
WithoutRelation(sts, i, column) == [sts EXCEPT ![i][column] = NaNRef]

\* C10: a relation cell that is missing, or holds an id no student has, puts no
\* constraint on the model: its solutions are those of the model built with
\* that cell holding no id at all.
C10_UnresolvedIsNoConstraint ==
    pc = "built" =>
        \A i \in 1..Len(df), column \in {"bad", "good"} :
            (df[i][column] = NaNRef \/ df[i][column] \notin IdSet(students))
                => Solutions(model) = Solutions(BuildModel(WithoutRelation(students, i, column)))

\* the (student, referenced student) pairs that carry a clause of model m
ClausePairs(m) == {<<cl[1][1], cl[2][1]>> : cl \in m.bool_or}

\* C12: in a registry where no student has id 0, the builder's negative-relation
\* clauses are those of the pairs the verification pass looks at (a reference
\* that resolves to a different student), and a student whose negative
\* reference is the student's own id gets no constraint from it: the model's
\* solutions are those of the model built without that reference.
C12_SelfReferenceUnconstrained ==
    (pc = "built" /\ 0 \notin IdSet(students)) =>
        /\ ClausePairs(model) = bad_pairs_checked(students)
        /\ \A i \in 1..Len(df) :
              df[i].bad = df[i].id
                  => Solutions(model) = Solutions(BuildModel(WithoutRelation(students, i, "bad")))

\* a student shares a class with the other student that the student's negative
\* reference names
NegativeRuleBroken ==
    \E s_id \in IdSet(students) :
        LET t_id == student_map(students)[s_id].bad
        IN  /\ t_id \in IdSet(students)
            /\ t_id # s_id
            /\ assigned_class[s_id] = assigned_class[t_id]

\* a student flagged non-attendance is not in the class of the student that
\* the student's positive reference names
CoPlacementRuleBroken ==
    \E s_id \in IdSet(students) :
        LET f_id == student_map(students)[s_id].good
        IN  /\ student_map(students)[s_id].absent = "yes"
            /\ f_id \in IdSet(students)
            /\ assigned_class[s_id] # assigned_class[f_id]

ClubRuleBroken == \E club \in ClubValues : ~EvenlySpread(ClubMembers(club))

AllSatisfied ==
    /\ report.bad_violations = {}
    /\ report.absc_violations = {}
    /\ report.sport_viol = {}
    /\ report.club_viol = {}

\* C11: applied to any total assignment, the verification pass reports a
\* negative-relation violation exactly when a student shares a class with the
\* other student named by the negative reference, a co-placement violation
\* exactly when a non-attendance student is apart from the named student, a
\* sport violation exactly when the sport-preference students are not evenly
\* spread, and a club violation exactly when some club is not evenly spread;
\* and a report with no violation at all means that the Piano students and the
\* non-attendance students are evenly spread too.
C11_ReportMatchesRules ==
    pc = "done" =>
        /\ (report.bad_violations # {}) <=> NegativeRuleBroken
        /\ (report.absc_violations # {}) <=> CoPlacementRuleBroken
        /\ (report.sport_viol # {}) <=> ~EvenlySpread(Flagged("sport"))
        /\ (report.club_viol # {}) <=> ClubRuleBroken
        /\ AllSatisfied =>
                /\ EvenlySpread(Flagged("Piano"))
                /\ EvenlySpread(Flagged("absent"))

====
